---- MODULE Spec2Model ----
(***************************************************************************)
(* sql_on_excel.py: a command line tool that keeps SQLite database files   *)
(* in a "Databases" folder, imports CSV/XLSX files into them as tables,    *)
(* runs queries against them and writes the results to spreadsheets.       *)
(*                                                                         *)
(* One invocation of the tool is one run of main(args): the dispatcher     *)
(* tests the attributes of the argparse Namespace one after the other and  *)
(* runs the matching operation.  The Namespace is immutable, so the model  *)
(* draws the value of each attribute at the point where main reads it.     *)
(* The storage folder, its files and the spreadsheets written persist      *)
(* from one invocation to the next; everything else belongs to a process.  *)
(***************************************************************************)
EXTENDS Integers, Sequences, FiniteSets, TLC

VARIABLES
    folder,     \* TRUE iff the "Databases" folder exists
    files,      \* names of the files in the folder ("db1.db", ...)
    tables,     \* file name -> set of tables stored in that database
    outputs,    \* path of a spreadsheet written by a query -> its content
    conns,      \* database files this process holds an open connection to
    stdout,     \* the prints of the operation main called last, in order
    err,        \* the exception that left main, "none" while there is none
    pc,         \* the test of main the process is at, "exit" once it ended
    ran,        \* operations main has called in this invocation, in order
    req,        \* operations whose attribute main found set in this invocation
    last,       \* the operation main called last, with its arguments
    ident,      \* identifier handed to the validator (SpecIdent)
    verdict     \* what the validator answered for ident (SpecIdent)

vars == <<folder, files, tables, outputs, conns, stdout, err, pc, ran, req,
          last, ident, verdict>>

(***************************************************************************)
(* Bounds of the model.                                                    *)
(***************************************************************************)
MaxLen == 3     \* longest identifier handed to the validator in SpecIdent

(***************************************************************************)
(* Python values.                                                          *)
(***************************************************************************)
None == "None"

\* s[-n:] of a Python string (the whole string when it is shorter than n)
Suffix(s, n) == SubSeq(s, IF Len(s) > n THEN Len(s) - n + 1 ELSE 1, Len(s))

\* Python's classification of the characters the model uses.  "é" is a
\* letter for str.isalnum although it is outside [A-Za-z0-9_].
AsciiLetters ==
    {"a", "b", "c", "d", "e", "f", "g", "h", "i", "j", "k", "l", "m",
     "n", "o", "p", "q", "r", "s", "t", "u", "v", "w", "x", "y", "z",
     "A", "B", "C", "D", "E", "F", "G", "H", "I", "J", "K", "L", "M",
     "N", "O", "P", "Q", "R", "S", "T", "U", "V", "W", "X", "Y", "Z"}
AsciiDigits == {"0", "1", "2", "3", "4", "5", "6", "7", "8", "9"}
OtherLetters == {"é"}
\* the characters the identifiers of SpecIdent are built from
Alphabet == {"a", "Z", "7", "é", "_", "-"}

\* str.isdigit / str.isalnum of one character
CharIsDigit(c) == c \in AsciiDigits
CharIsAlnum(c) == c \in AsciiLetters \cup AsciiDigits \cup OtherLetters

\* str.isdigit(): every character is a digit and there is at least one
isdigit(s) == Len(s) > 0 /\ \A i \in 1..Len(s) : CharIsDigit(s[i])
\* str.isalnum(): every character is alphanumeric and there is at least one
isalnum(s) == Len(s) > 0 /\ \A i \in 1..Len(s) : CharIsAlnum(s[i])
\* str.replace("_", "A")
replace_underscore(s) == [i \in 1..Len(s) |-> IF s[i] = "_" THEN "A" ELSE s[i]]

\* check_sqlite_entity_syntax without its first test
check_no_digit_test(entity, type_) ==
    IF ~isalnum(replace_underscore(entity)) THEN "InvalidIdentifier"
    ELSE "none"

\* check_sqlite_entity_syntax(entity, type_): the exception raised, or "none"
check_sqlite_entity_syntax(entity, type_) ==
    IF isdigit(entity) THEN "InvalidIdentifier"
    ELSE IF ~isalnum(replace_underscore(entity)) THEN "InvalidIdentifier"
    ELSE "none"

(***************************************************************************)
(* The inputs: database names, the files the user points the tool at, and  *)
(* the argument lists of --import_file and --execute.                      *)
(***************************************************************************)
DBNames == {"db1", "db2"}

\* table names: two valid ones, one of digits only, one with a bad character
T1 == <<"a", "7">>
T2 == <<"_", "Z">>
TableNames == {T1, T2, <<"7", "7">>, <<"a", "-">>}

IndexCol == <<"i", "n", "d", "e", "x">>
ColId == <<"i", "d">>
ColQty == <<"q", "t", "y">>
ColBad == <<"a", "-", "Z">>

\* The data files on disk: the columns of the header row of each.
SourceFiles ==
    [path \in {"orders.csv", "a.xlsx", "c.xlsx", "b.xlsx", "notes.txt"} |->
        CASE path = "orders.csv" -> <<ColId, ColQty>>
          [] path = "a.xlsx"     -> <<ColId, ColQty>>
          [] path = "c.xlsx"     -> <<ColQty>>
          [] path = "b.xlsx"     -> <<ColId, ColBad>>
          [] OTHER               -> <<>>]
\* every workbook has one sheet, "S1", which is also the default sheet
DefaultSheet == "S1"

ImportArgs ==
    {<<d, p, t>> : d \in DBNames, p \in DOMAIN SourceFiles, t \in TableNames}
    \cup {<<d, p, t, DefaultSheet>> :
            d \in DBNames, p \in DOMAIN SourceFiles, t \in TableNames}

\* text files holding a query: their lines
TextFiles ==
    [path \in {"q.txt", "empty.txt"} |->
        IF path = "q.txt" THEN <<"SELECT * FROM a7">> ELSE <<>>]
QueryArgs == {"SELECT 1", "SELECT * FROM a7", "q.txt", "empty.txt"}
\* directories a result can be written to: "/tmp" exists, "/nodir" does not
OutDirs == {"/tmp", "/nodir"}
ExistingDirs == {"/tmp"}
OutNames == {"result"}

ExecArgs ==
    {<<q, o, n, d>> : q \in QueryArgs, o \in OutDirs, n \in OutNames, d \in DBNames}
    \cup {<<q, o, n, d, f>> : q \in QueryArgs, o \in OutDirs, n \in OutNames,
                              d \in DBNames, f \in {"clear", "keep"}}

(***************************************************************************)
(* The operations, as functions on the world w = the process's view of     *)
(* the file system, its connections, its output and the pending exception. *)
(***************************************************************************)
\* stdout starts empty: it collects what the operation about to run prints
World ==
    [folder |-> folder, files |-> files, tables |-> tables, outputs |-> outputs,
     conns |-> conns, stdout |-> <<>>, err |-> err]

Raise(w, e) == [w EXCEPT !.err = e]
\* print(...): one more print on stdout
PrintLines(w, what, lines) ==
    [w EXCEPT !.stdout = Append(@, [what |-> what, lines |-> lines])]

\* sqlite3.connect(db_path): fails when the folder is missing, creates an
\* empty database file when there is none, and leaves a connection open
sqlite3_connect(w, db_file) ==
    IF ~w.folder THEN Raise(w, "OperationalError")
    ELSE [w EXCEPT !.files = @ \cup {db_file},
                   !.tables = IF db_file \in w.files THEN @ ELSE (db_file :> {}) @@ @,
                   !.conns = @ \cup {db_file}]

conn_close(w, db_file) == [w EXCEPT !.conns = @ \ {db_file}]

\* build_db(db_name, current_path, db_folder)
build_db(w, db_name) ==
    LET db_file == db_name \o ".db"
        w1 == [w EXCEPT !.folder = TRUE]
        w2 == sqlite3_connect(w1, db_file)
    IN  PrintLines(conn_close(w2, db_file), "created", {db_file})

\* delete_db_path(db_name, db_folder)
delete_db_path(w, db_name) ==
    LET db_file == db_name \o ".db"
    IN  IF w.folder /\ db_file \in w.files
        THEN PrintLines([w EXCEPT !.files = @ \ {db_file},
                                  !.tables = [f \in DOMAIN @ \ {db_file} |-> @[f]]],
                        "deleted", {db_file})
        ELSE Raise(w, "NotFound")

\* pd.read_csv(data_path) / pd.read_excel(data_path[, sheet_name]): the frame
\* read, i.e. its columns and where its rows come from
read_file(data_path, sheet) ==
    [cols |-> SourceFiles[data_path], data |-> <<data_path, sheet>>]

\* first column of the frame that fails the syntax check, as the loop finds it
FirstBadColumn(cols) ==
    IF \E i \in 1..Len(cols) : check_sqlite_entity_syntax(cols[i], "Column") # "none"
    THEN CHOOSE i \in 1..Len(cols) :
            /\ check_sqlite_entity_syntax(cols[i], "Column") # "none"
            /\ \A j \in 1..(i - 1) : check_sqlite_entity_syntax(cols[j], "Column") = "none"
    ELSE 0

\* an import that takes the database to exist whatever the folder holds
DbExistsAlways(w, db_file) == TRUE

\* the loop over os.listdir(db_folder) that sets db_exists
DbExists(w, db_file) == db_file \in w.files

\* DataFrame.to_sql(..., if_exists='replace')
to_sql_replace(w, db_file, name, data) ==
    [w EXCEPT !.tables[db_file] =
        {t \in @ : t.name # name}
        \cup {[name |-> name, cols |-> <<IndexCol>> \o data.cols, data |-> data.data]}]

\* DataFrame.to_sql(name, con, if_exists='fail'): the table gets the frame's
\* columns behind an "index" column
to_sql(w, db_file, name, data) ==
    IF \E t \in w.tables[db_file] : t.name = name
    THEN Raise(w, "TableExists")
    ELSE [w EXCEPT !.tables[db_file] =
            @ \cup {[name |-> name, cols |-> <<IndexCol>> \o data.cols,
                     data |-> data.data]}]

\* import_file_to_db up to the point where it connects: the checks of the
\* table name, of the file extension, of the columns read and of the database,
\* in the order the function makes them; the exception raised, or "none"
import_checks(w, a) ==
    LET data_path == a[2]
        table_name == a[3]
        db_file == a[1] \o ".db"
        is_csv == Suffix(data_path, 3) = "csv"
        is_xlsx == Suffix(data_path, 4) = "xlsx"
    IN  IF check_sqlite_entity_syntax(table_name, "Table") # "none"
        THEN check_sqlite_entity_syntax(table_name, "Table")
        ELSE IF is_csv /\ Len(a[3]) > 0
        THEN "InvalidArgumentCombination"
        ELSE IF ~is_csv /\ ~is_xlsx
        THEN "UnsupportedFormat"
        ELSE IF FirstBadColumn(SourceFiles[data_path]) # 0
        THEN "InvalidIdentifier"
        ELSE IF ~w.folder
        THEN "FileNotFoundError"
        ELSE IF ~DbExists(w, db_file)
        THEN "NotFound"
        ELSE "none"

\* import_file_to_db(import_file_args, db_folder)
import_file_to_db(w, a) ==
    LET data_path == a[2]
        db_file == a[1] \o ".db"
        data == IF Suffix(data_path, 3) = "csv" THEN read_file(data_path, "")
                ELSE IF Len(a) = 4 THEN read_file(data_path, a[4])
                ELSE read_file(data_path, DefaultSheet)
        w1 == sqlite3_connect(w, db_file)
        w2 == to_sql(w1, db_file, a[3], data)
    IN  IF import_checks(w, a) # "none" THEN Raise(w, import_checks(w, a))
        ELSE IF w2.err # "none" THEN w2
        ELSE PrintLines(conn_close(w2, db_file), "imported", {a[2]})

RECURSIVE Join(_)
\* ''.join(all_lines)
Join(lines) == IF lines = <<>> THEN "" ELSE Head(lines) \o Join(Tail(lines))

\* get_query(user_query): the exception raised ("none" if none) and the query
get_query(user_query) ==
    IF Suffix(user_query, 4) = ".txt"
    THEN IF user_query \notin DOMAIN TextFiles
         THEN [err |-> "FileNotFoundError", query |-> ""]
         ELSE IF Len(TextFiles[user_query]) = 0
         THEN [err |-> "EmptyQuery", query |-> ""]
         ELSE [err |-> "none", query |-> Join(TextFiles[user_query])]
    ELSE [err |-> "none", query |-> user_query]

\* pd.read_sql_query(query, conn) on a database holding the tables tbls
read_sql_query(tbls, query) ==
    IF query = "SELECT 1"
    THEN [ok |-> TRUE, cols |-> << <<"1">> >>, data |-> <<"SELECT 1", "">>]
    ELSE IF query = "SELECT * FROM a7" /\ \E t \in tbls : t.name = T1
    THEN LET t == CHOOSE t \in tbls : t.name = T1
         IN  [ok |-> TRUE, cols |-> t.cols, data |-> t.data]
    ELSE [ok |-> FALSE, cols |-> <<>>, data |-> <<"", "">>]

\* result.drop('index', axis = 1) when 'index' is among the columns
drop_index(cols) == SelectSeq(cols, LAMBDA c : c # IndexCol)

\* the test that decides whether execute_query deletes the database
ClearAnyFifth(a) == Len(a) = 5
ClearRequested(a) == Len(a) = 5 /\ a[5] = "clear"

\* execute_query(execute_query_args, db_folder)
execute_query(w, a) ==
    LET q == get_query(a[1])
        output_dir == a[2]
        output_name == a[3] \o ".xlsx"
        db_name == a[4]
        db_file == db_name \o ".db"
        output_path == output_dir \o "/" \o output_name
        w1 == sqlite3_connect(w, db_file)
        result == read_sql_query(w1.tables[db_file], q.query)
        w2 == [w1 EXCEPT !.outputs =
                 (output_path :> [cols |-> drop_index(result.cols),
                                  data |-> result.data]) @@ @]
        w3 == PrintLines(conn_close(w2, db_file), "query ran", {output_path})
    IN  IF q.err # "none" THEN Raise(w, q.err)
        ELSE IF w1.err = "OperationalError" THEN Raise(w, "NotFound")
        ELSE IF ~result.ok THEN Raise(w1, "QueryError")
        ELSE IF output_dir \notin ExistingDirs THEN Raise(w1, "OSError")
        ELSE IF ClearRequested(a) THEN delete_db_path(w3, db_name)
        ELSE IF Len(a) = 5 THEN PrintLines(w3, "not understood", {a[5]})
        ELSE w3

\* shutil.rmtree(db_folder) and the print that follows it in main
clear_all_data(w) ==
    IF ~w.folder THEN Raise(w, "FileNotFoundError")
    ELSE PrintLines([w EXCEPT !.folder = FALSE, !.files = {}, !.tables = <<>>],
                    "cleared", {})

\* list_db(db_folder)
list_db(w) ==
    IF ~w.folder THEN Raise(w, "FileNotFoundError")
    ELSE PrintLines(w, "databases", w.files)

\* list_tables(db_name, db_folder)
list_tables(w, db_name) ==
    LET db_file == db_name \o ".db"
        w1 == sqlite3_connect(w, db_file)
    IN  IF w1.err = "OperationalError" THEN Raise(w, "NotFound")
        ELSE PrintLines(conn_close(w1, db_file), "tables",
                        {t.name : t \in w1.tables[db_file]})

(***************************************************************************)
(* main(args): the dispatcher.                                             *)
(***************************************************************************)
\* the order the docstring of the argument parser announces
OrderOfHelpText ==
    <<"build", "delete", "import", "execute", "list_tables", "list_db", "clear">>

\* the order of the tests in main
Order ==
    <<"build", "delete", "import", "execute", "clear", "list_db", "list_tables">>

Position(op) == CHOOSE i \in 1..Len(Order) : Order[i] = op

\* the test main goes to when the operation op returned
NextPc(op) ==
    IF Position(op) = Len(Order) THEN "exit" ELSE Order[Position(op) + 1]

\* a dispatcher that catches the exception and goes on
AfterOpSwallow(op, e) == NextPc(op)

\* where the process is after op: an exception leaves main and ends the process
AfterOp(op, e) == IF e # "none" THEN "exit" ELSE NextPc(op)

NoOutput == <<>>
NoOp == [op |-> "none", args |-> None]

\* the attribute tested at pc = op is not set: main goes to its next test
Skip(op) ==
    /\ pc = op
    /\ pc' = NextPc(op)
    /\ UNCHANGED <<folder, files, tables, outputs, conns, stdout, err, ran, req,
                   last, ident, verdict>>

\* the attribute tested at pc = op is set to v: main calls the operation,
\* which turns the world into w
Call(op, v, w) ==
    /\ pc = op
    /\ folder' = w.folder
    /\ files' = w.files
    /\ tables' = w.tables
    /\ outputs' = w.outputs
    /\ conns' = w.conns
    /\ stdout' = w.stdout
    /\ err' = w.err
    /\ pc' = AfterOp(op, w.err)
    /\ ran' = Append(ran, op)
    /\ req' = req \cup {op}
    /\ last' = [op |-> op, args |-> v]
    /\ UNCHANGED <<ident, verdict>>

\* a new process: python sql_on_excel.py ...
Invoke ==
    /\ pc = "exit"
    /\ pc' = Order[1]
    /\ err' = "none"
    /\ conns' = {}
    /\ stdout' = NoOutput
    /\ ran' = <<>>
    /\ req' = {}
    /\ last' = NoOp
    /\ UNCHANGED <<folder, files, tables, outputs, ident, verdict>>

\* if args.build_db_name is not None
StepBuild ==
    \/ Skip("build")
    \/ \E name \in DBNames : Call("build", name, build_db(World, name))

\* if args.delete_db_name is not None
StepDelete ==
    \/ Skip("delete")
    \/ \E name \in DBNames : Call("delete", name, delete_db_path(World, name))

\* if args.file_to_import_args is not None
StepImport ==
    \/ Skip("import")
    \/ \E a \in ImportArgs : Call("import", a, import_file_to_db(World, a))

\* if args.query_to_execute is not None
StepExecute ==
    \/ Skip("execute")
    \/ \E a \in ExecArgs : Call("execute", a, execute_query(World, a))

\* if args.clear_all_data
StepClear ==
    \/ Skip("clear")
    \/ Call("clear", TRUE, clear_all_data(World))

\* if args.list_all_db_name
StepListDb ==
    \/ Skip("list_db")
    \/ Call("list_db", TRUE, list_db(World))

\* if args.list_table_db_name
StepListTables ==
    \/ Skip("list_tables")
    \/ \E name \in DBNames : Call("list_tables", name, list_tables(World, name))

Init ==
    /\ folder = FALSE
    /\ files = {}
    /\ tables = <<>>
    /\ outputs = <<>>
    /\ conns = {}
    /\ stdout = NoOutput
    /\ err = "none"
    /\ pc = "exit"
    /\ ran = <<>>
    /\ req = {}
    /\ last = NoOp
    /\ ident = <<>>
    /\ verdict = "unchecked"

Next ==
    \/ Invoke
    \/ StepBuild
    \/ StepDelete
    \/ StepImport
    \/ StepExecute
    \/ StepClear
    \/ StepListDb
    \/ StepListTables

Spec == Init /\ [][Next]_vars

(***************************************************************************)
(* The identifier validator on its own: every identifier of at most        *)
(* MaxLen characters, as a table name or as a column name.                 *)
(***************************************************************************)
Idents == UNION {[1..n -> Alphabet] : n \in 0..MaxLen}

InitIdent ==
    /\ folder = FALSE
    /\ files = {}
    /\ tables = <<>>
    /\ outputs = <<>>
    /\ conns = {}
    /\ stdout = NoOutput
    /\ err = "none"
    /\ pc = "exit"
    /\ ran = <<>>
    /\ req = {}
    /\ last = NoOp
    /\ ident \in Idents
    /\ verdict = "unchecked"

Validate ==
    /\ verdict = "unchecked"
    /\ \E type_ \in {"Table", "Column"} :
          verdict' = check_sqlite_entity_syntax(ident, type_)
    /\ UNCHANGED <<folder, files, tables, outputs, conns, stdout, err, pc, ran,
                   req, last, ident>>

NextIdent == Validate

SpecIdent == InitIdent /\ [][NextIdent]_vars

(***************************************************************************)
(* Vocabulary of the properties.                                           *)
(***************************************************************************)
\* this step is main calling the operation op; last' holds its arguments
Called(op) == pc = op /\ ran' = Append(ran, op)

\* the step changes nothing on disk
DiskUnchanged ==
    folder' = folder /\ files' = files /\ tables' = tables /\ outputs' = outputs

\* the error kinds that mean "not found": the tool's own exception and the
\* FileNotFoundError the operating system raises for a missing folder
IsNotFound(e) == e \in {"NotFound", "FileNotFoundError"}

\* the identifier classes the specification speaks of
InAsciiClass(c) == c \in AsciiLetters \cup AsciiDigits \cup {"_"}
OnlyDigits(s) == Len(s) > 0 /\ \A i \in 1..Len(s) : s[i] \in AsciiDigits
MatchesPattern(s) ==
    /\ Len(s) > 0
    /\ s[1] \in AsciiLetters \cup {"_"}
    /\ \A i \in 1..Len(s) : InAsciiClass(s[i])

ValidName(s) == ~OnlyDigits(s) /\ Len(s) > 0 /\ \A i \in 1..Len(s) : InAsciiClass(s[i])
ValidColumns(path) == \A i \in 1..Len(SourceFiles[path]) : ValidName(SourceFiles[path][i])
HasTable(db_file, name) ==
    db_file \in files /\ \E t \in tables[db_file] : t.name = name

\* the position the specification gives each operation in an invocation
DispatchRank(op) ==
    CASE op = "build" -> 1
      [] op = "delete" -> 2
      [] op = "import" -> 3
      [] op = "execute" -> 4
      [] op = "clear" -> 5
      [] op = "list_db" -> 6
      [] op = "list_tables" -> 7
      [] OTHER -> 8

(***************************************************************************)
(* C1.  A .csv import with a valid table name, valid columns, an existing  *)
(* target database and no table of that name fails with                    *)
(* InvalidArgumentCombination when a sheet name is given, and with exactly *)
(* DB, FILE, TABLE succeeds and adds exactly one table named TABLE.        *)
(***************************************************************************)
C1_CsvImport ==
    [][Called("import") =>
        LET a == last'.args
            f == a[1] \o ".db"
        IN  (/\ Suffix(a[2], 4) = ".csv"
             /\ ValidName(a[3])
             /\ ValidColumns(a[2])
             /\ f \in files
             /\ ~HasTable(f, a[3]))
            => /\ Len(a) = 4 => err' = "InvalidArgumentCombination"
               /\ Len(a) = 3 =>
                    /\ err' = "none"
                    /\ files' = files
                    /\ \E t \in tables'[f] :
                          t.name = a[3] /\ tables'[f] = tables[f] \cup {t}]_vars

(***************************************************************************)
(* C2.  execute_query against a database name that has no file in the     *)
(* storage directory fails with NotFound before the query is run, and      *)
(* writes no spreadsheet.                                                  *)
(***************************************************************************)
C2_ExecuteMissingDb ==
    [][Called("execute") =>
        LET a == last'.args
        IN  (get_query(a[1]).err = "none" /\ (a[4] \o ".db") \notin files)
            => (err' = "NotFound" /\ outputs' = outputs)]_vars

(***************************************************************************)
(* C3.  Only build adds a database file to the storage directory: import,  *)
(* execute_query and list_tables never do, so every file there was built   *)
(* and not since deleted.                                                  *)
(***************************************************************************)
C3_OnlyBuildCreates ==
    [][(files' \ files # {}) => Called("build")]_vars

(***************************************************************************)
(* C4.  Within one invocation the requested operations run in the order    *)
(* build, delete, import, execute, clear, list databases, list tables:     *)
(* the operations called so far are exactly those whose attribute main    *)
(* found set, they were called in that order, main is past every one it    *)
(* called, and from one test main goes to the test next in that order.     *)
(***************************************************************************)
C4_FixedOrder ==
    /\ [](/\ \A i, j \in 1..Len(ran) :
                i < j => DispatchRank(ran[i]) < DispatchRank(ran[j])
          /\ {ran[i] : i \in 1..Len(ran)} = req
          /\ pc # "exit" =>
                \A i \in 1..Len(ran) : DispatchRank(ran[i]) < DispatchRank(pc))
    /\ [][(pc # "exit" /\ pc' # "exit") =>
            DispatchRank(pc') = DispatchRank(pc) + 1]_vars

\* build, import, execute and list tables were requested and ran, in that
\* order, the other three were skipped
C4_Witness ==
    /\ pc = "exit"
    /\ err = "none"
    /\ req = {"build", "import", "execute", "list_tables"}
    /\ ran = <<"build", "import", "execute", "list_tables">>

(***************************************************************************)
(* C5.  When an operation fails the invocation ends with that error: main  *)
(* is left at once, nothing runs after it until a new invocation starts,   *)
(* and the failing step removes nothing that was on disk before it.        *)
(***************************************************************************)
C5_FirstErrorEnds ==
    [][/\ err' # "none" => (pc' = "exit" /\ last'.op = ran'[Len(ran')])
       /\ err # "none" => (ran' = <<>> /\ err' = "none" /\ DiskUnchanged)
       /\ (err = "none" /\ err' # "none") =>
            /\ folder => folder'
            /\ files \subseteq files'
            /\ \A f \in files : tables'[f] = tables[f]
            /\ \A o \in DOMAIN outputs :
                  o \in DOMAIN outputs' /\ outputs'[o] = outputs[o]]_vars

\* an import failed after the build before it had created the folder and a
\* database: the invocation is over and the database is still there
C5_Witness ==
    /\ pc = "exit"
    /\ err = "InvalidIdentifier"
    /\ ran = <<"build", "import">>
    /\ files # {}

(***************************************************************************)
(* C6.  execute_query deletes the target database exactly when its fifth   *)
(* argument is "clear" and the query ran and the result was written; with  *)
(* another fifth argument, or none, the database is there when it returns, *)
(* and the unrecognised value raises no error of its own.                  *)
(***************************************************************************)
C6_ClearOnlyOnClear ==
    [][Called("execute") =>
        LET a == last'.args
            f == a[4] \o ".db"
            out == a[2] \o "/" \o a[3] \o ".xlsx"
            clear == Len(a) = 5 /\ a[5] = "clear"
        IN  /\ (clear /\ err' = "none") =>
                (f \notin files' /\ out \in DOMAIN outputs')
            /\ (clear /\ err' # "none" /\ f \in files) => f \in files'
            /\ (~clear /\ err' = "none") => f \in files'
            /\ (~clear /\ f \in files) =>
                (f \in files' /\ tables'[f] = tables[f])
            /\ (Len(a) = 5 /\ ~clear) =>
                err' = execute_query(World, SubSeq(a, 1, 4)).err]_vars

\* a query with "clear" ran, its result is written and the database is gone
C6_Witness ==
    /\ last.op = "execute"
    /\ Len(last.args) = 5
    /\ last.args[5] = "clear"
    /\ err = "none"
    /\ (last.args[4] \o ".db") \notin files
    /\ (last.args[2] \o "/" \o last.args[3] \o ".xlsx") \in DOMAIN outputs
    /\ files # {}

(***************************************************************************)
(* C7.  An import that fails a check made before the write (table name,    *)
(* file extension, sheet name with a CSV, column name, missing database,   *)
(* the last with NotFound) leaves every database and table as it was; a    *)
(* successful import adds exactly one table to the target database and     *)
(* changes nothing else.                                                   *)
(***************************************************************************)
C7_ImportFrame ==
    [][Called("import") =>
        LET a == last'.args
            f == a[1] \o ".db"
            csv == Suffix(a[2], 3) = "csv"
            xlsx == Suffix(a[2], 4) = "xlsx"
            other_checks_pass ==
                ValidName(a[3]) /\ xlsx /\ ValidColumns(a[2])
        IN  /\ (\/ ~ValidName(a[3])
                \/ (~csv /\ ~xlsx)
                \/ (csv /\ Len(a) = 4)
                \/ ~ValidColumns(a[2])
                \/ f \notin files)
               => (err' # "none" /\ DiskUnchanged)
            /\ (other_checks_pass /\ f \notin files) => IsNotFound(err')
            /\ (other_checks_pass /\ f \in files /\ ~HasTable(f, a[3]))
               => err' = "none"
            /\ err' = "none" =>
                /\ folder' = folder /\ files' = files /\ outputs' = outputs
                /\ \A g \in files \ {f} : tables'[g] = tables[g]
                /\ \E t \in tables'[f] :
                      /\ t.name = a[3]
                      /\ t \notin tables[f]
                      /\ tables'[f] = tables[f] \cup {t}]_vars

\* an import into a database that does not exist failed while another
\* database holds a table
C7_Witness ==
    /\ last.op = "import"
    /\ err = "NotFound"
    /\ (last.args[1] \o ".db") \notin files
    /\ \E g \in files : tables[g] # {}

(***************************************************************************)
(* C8.  The validator rejects every identifier made of digits only and     *)
(* every identifier with a character outside [A-Za-z0-9_], and accepts     *)
(* every identifier matching [A-Za-z_][A-Za-z0-9_]*.                       *)
(***************************************************************************)
C8_Original ==
    verdict # "unchecked" =>
        /\ OnlyDigits(ident) => verdict = "InvalidIdentifier"
        /\ (\E i \in 1..Len(ident) : ~InAsciiClass(ident[i]))
              => verdict = "InvalidIdentifier"
        /\ MatchesPattern(ident) => verdict = "none"

\* C8 as amended: the validator rejects every identifier made of digits
\* only and every identifier with a character that is neither a letter or
\* digit in Python's sense (which a non-ASCII letter such as "é" is) nor an
\* underscore, and accepts every identifier matching [A-Za-z_][A-Za-z0-9_]*.
C8_Validator ==
    verdict # "unchecked" =>
        /\ OnlyDigits(ident) => verdict = "InvalidIdentifier"
        /\ (\E i \in 1..Len(ident) :
                ~InAsciiClass(ident[i]) /\ ident[i] \notin OtherLetters)
              => verdict = "InvalidIdentifier"
        /\ MatchesPattern(ident) => verdict = "none"

\* an identifier of digits only was rejected
C8_Witness ==
    /\ verdict = "InvalidIdentifier"
    /\ Len(ident) = 2
    /\ OnlyDigits(ident)

(***************************************************************************)
(* C9.  An import under a table name the target database already has      *)
(* fails, with TableExists once the checks before the write have passed,   *)
(* and leaves the tables as they were; no import ever replaces or extends  *)
(* a table that exists.                                                    *)
(***************************************************************************)
C9_NoOverwrite ==
    [][Called("import") =>
        LET a == last'.args
            f == a[1] \o ".db"
        IN  /\ HasTable(f, a[3]) => (err' # "none" /\ tables' = tables)
            /\ (/\ HasTable(f, a[3])
                /\ ValidName(a[3])
                /\ Suffix(a[2], 4) = "xlsx"
                /\ ValidColumns(a[2]))
               => err' = "TableExists"
            /\ \A g \in files : g \in files' /\ tables[g] \subseteq tables'[g]]_vars

\* a second import under the name of a table the database holds was refused
C9_Witness ==
    /\ last.op = "import"
    /\ err = "TableExists"
    /\ \E t \in tables[last.args[1] \o ".db"] :
          t.name = last.args[3] /\ t.data[1] # last.args[2]

(***************************************************************************)
(* C10.  Every connection an operation opens is closed before it returns,  *)
(* normally or by an error: none is open between operations or when the    *)
(* invocation ends.                                                        *)
(***************************************************************************)
C10_NoConnectionLeftOpen == conns = {}

====
